---- MODULE Spec2Model ----
(***************************************************************************)
(* Model of typora-copilot's range-addressed text primitives               *)
(* (src/utils/tools.ts: sliceTextByRange, replaceTextByRange) and of the   *)
(* suggestion panel's attach/dispose life cycle (attachSuggestionPanel).   *)
(*                                                                         *)
(* A string is a sequence of code units; a code unit is one of Chars.      *)
(* The JavaScript built-ins the code calls (String.prototype.split,        *)
(* Array.prototype.join, String/Array.prototype.slice, indexing past the   *)
(* end of an array) are modelled by what they do, clamping and negative    *)
(* indices included.                                                       *)
(***************************************************************************)
EXTENDS Integers, Sequences, FiniteSets, TLC

\* ------------------------------------------------------------------ bounds
MaxTextLen == 4
MaxIdx == 2
MaxNewLen == 1
MaxAttach == 3
MaxCoord == 1

\* ------------------------------------------------------------- code units
CR == "CR"
LF == "LF"
Chars == {"a", CR, LF}

\* The EOL type: "\n" or "\r\n".
EOLs == {<<LF>>, <<CR, LF>>}

StringsUpTo(n) == UNION {[1..k -> Chars] : k \in 0..n}
Texts == StringsUpTo(MaxTextLen)
\* newText: any short string, and each terminator itself.
NewTexts == StringsUpTo(MaxNewLen) \cup EOLs

Indices == -1..MaxIdx
Positions == [line : Indices, character : Indices]
Ranges == [start : Positions, end : Positions]

Min(a, b) == IF a < b THEN a ELSE b
Max(a, b) == IF a > b THEN a ELSE b

\* --------------------------------------------------- JavaScript built-ins
\* String.prototype.split(sep) for a non-empty separator: the text between
\* successive non-overlapping occurrences of sep, found left to right.
\* p is the (1-based) start of the current row, q the scan position.
RECURSIVE SplitFrom(_, _, _, _)
SplitFrom(text, sep, p, q) ==
  IF q + Len(sep) - 1 > Len(text)
    THEN <<SubSeq(text, p, Len(text))>>
    ELSE IF SubSeq(text, q, q + Len(sep) - 1) = sep
      THEN <<SubSeq(text, p, q - 1)>> \o SplitFrom(text, sep, q + Len(sep), q + Len(sep))
      ELSE SplitFrom(text, sep, p, q + 1)

\* Mutant of split: trailing empty rows are dropped (as Java's split does).
RECURSIVE DropTrailingEmpty(_)
DropTrailingEmpty(rows) ==
  IF Len(rows) > 1 /\ rows[Len(rows)] = <<>>
    THEN DropTrailingEmpty(SubSeq(rows, 1, Len(rows) - 1))
    ELSE rows
split_DropsTrailingEmpty(text, sep) == DropTrailingEmpty(SplitFrom(text, sep, 1, 1))

split(text, sep) == SplitFrom(text, sep, 1, 1)

\* Array.prototype.join(sep) on an array of strings.
RECURSIVE join(_, _)
join(rows, sep) ==
  IF Len(rows) = 0 THEN <<>>
  ELSE IF Len(rows) = 1 THEN rows[1]
  ELSE rows[1] \o sep \o join(Tail(rows), sep)

\* The relative-index rule of String/Array.prototype.slice: a negative index
\* counts from the end, and the result is clamped to [0, length].
RelIndex(i, len) == IF i < 0 THEN Max(len + i, 0) ELSE Min(i, len)

\* s.slice(from, to), 0-based, to exclusive; empty when from >= to.
slice(s, from, to) == SubSeq(s, RelIndex(from, Len(s)) + 1, RelIndex(to, Len(s)))

\* s.slice(from): to the end.
sliceFrom(s, from) == slice(s, from, Len(s))

\* lines[i] is undefined unless 0 <= i < lines.length.
Defined(lines, i) == i \in 0..(Len(lines) - 1)
At(lines, i) == lines[i + 1]

\* ------------------------------------------------------------ results
StringResult(s) == [kind |-> "string", value |-> s]
RowsResult(rows) == [kind |-> "rows", value |-> rows]
\* Calling .slice on undefined throws a TypeError.
TypeError == [kind |-> "TypeError", value |-> <<>>]
NoResult == [kind |-> "none", value |-> <<>>]

\* --------------------------------------------------------- the program
\* Mutant of sliceTextByRange: the rows between start.line and end.line are
\* left out of a multi-line slice.
sliceTextByRange_DropsMiddleRows(text, range, eol, returnRows) ==
  LET start == range.start
      end == range.end
      lines == split(text, eol)
  IN IF ~Defined(lines, start.line) THEN TypeError
     ELSE
       LET startLine == sliceFrom(At(lines, start.line), start.character)
       IN IF start.line = end.line
            THEN (IF returnRows THEN RowsResult(<<startLine>>) ELSE StringResult(startLine))
          ELSE IF ~Defined(lines, end.line) THEN TypeError
          ELSE
            LET endLine == slice(At(lines, end.line), 0, end.character)
                rows == <<startLine>> \o <<endLine>>
            IN IF returnRows THEN RowsResult(rows) ELSE StringResult(join(rows, eol))

sliceTextByRange(text, range, eol, returnRows) ==
  LET start == range.start
      end == range.end
      lines == split(text, eol)
  IN IF ~Defined(lines, start.line) THEN TypeError
     ELSE
       LET startLine == sliceFrom(At(lines, start.line), start.character)
       IN IF start.line = end.line
            THEN (IF returnRows THEN RowsResult(<<startLine>>) ELSE StringResult(startLine))
          ELSE IF ~Defined(lines, end.line) THEN TypeError
          ELSE
            LET endLine == slice(At(lines, end.line), 0, end.character)
                rows == <<startLine>> \o slice(lines, start.line + 1, end.line) \o <<endLine>>
            IN IF returnRows THEN RowsResult(rows) ELSE StringResult(join(rows, eol))

\* Mutant of replaceTextByRange: on one line the rest of the row is taken from
\* start.character, so newText is inserted and the span is not removed.
replaceTextByRange_KeepsSpan(text, range, newText, eol) ==
  LET start == range.start
      end == range.end
      lines == split(text, eol)
  IN IF ~Defined(lines, start.line) THEN TypeError
     ELSE
       LET startLine == At(lines, start.line)
       IN IF start.line = end.line
            THEN StringResult(join(
                   slice(lines, 0, start.line)
                   \o <<slice(startLine, 0, start.character) \o newText
                        \o sliceFrom(startLine, start.character)>>
                   \o sliceFrom(lines, end.line + 1), eol))
          ELSE IF ~Defined(lines, end.line) THEN TypeError
          ELSE
            LET endLine == At(lines, end.line)
            IN StringResult(join(
                 slice(lines, 0, start.line)
                 \o <<slice(startLine, 0, start.character) \o newText>>
                 \o slice(lines, start.line + 1, end.line)
                 \o <<sliceFrom(endLine, end.character)>>, eol))

replaceTextByRange(text, range, newText, eol) ==
  LET start == range.start
      end == range.end
      lines == split(text, eol)
  IN IF ~Defined(lines, start.line) THEN TypeError
     ELSE
       LET startLine == At(lines, start.line)
       IN IF start.line = end.line
            THEN StringResult(join(
                   slice(lines, 0, start.line)
                   \o <<slice(startLine, 0, start.character) \o newText
                        \o sliceFrom(startLine, end.character)>>
                   \o sliceFrom(lines, end.line + 1), eol))
          ELSE IF ~Defined(lines, end.line) THEN TypeError
          ELSE
            LET endLine == At(lines, end.line)
            IN StringResult(join(
                 slice(lines, 0, start.line)
                 \o <<slice(startLine, 0, start.character) \o newText>>
                 \o slice(lines, start.line + 1, end.line)
                 \o <<sliceFrom(endLine, end.character)>>, eol))

\* ------------------------------------------------------ suggestion panel
\* getCaretCoordinate() returns a coordinate, or null when there is none.
Null == [null |-> TRUE]
\* Only pos.y is read again after the first render (by scrollListener), so x
\* takes one value.
Coordinates == [x : {0}, y : 0..MaxCoord]

\* ------------------------------------------------------------- state
VARIABLES
  text, eol, pc, op, range, newText, returnRows, result,
  caret,            \* what getCaretCoordinate() returns now
  body,             \* the container elements that are children of document.body
  scrollListeners,  \* the scroll listeners registered on the content element
  mounted,          \* container -> the panel rendered in it ([x, top])
  calls,            \* per attachSuggestionPanel call: the pos it read, its container and listener
  disposed          \* the calls whose returned disposer has been called

textVars == <<text, eol, pc, op, range, newText, returnRows, result>>
panelVars == <<caret, body, scrollListeners, mounted, calls, disposed>>
vars == <<textVars, panelVars>>

ZeroRange == [start |-> [line |-> 0, character |-> 0], end |-> [line |-> 0, character |-> 0]]

\* No call of the text primitives is in progress or has returned.
TextIdle ==
  /\ pc = "idle"
  /\ op = "none"
  /\ range = ZeroRange
  /\ newText = <<>>
  /\ returnRows = FALSE
  /\ result = NoResult

TextInit ==
  /\ text \in Texts
  /\ eol \in EOLs
  /\ TextIdle

\* No panel has been attached.
PanelInit ==
  /\ caret \in Coordinates \cup {Null}
  /\ body = {}
  /\ scrollListeners = {}
  /\ mounted = <<>>
  /\ calls = <<>>
  /\ disposed = {}

CallSlice ==
  /\ pc = "idle"
  /\ \E r \in Ranges, rr \in BOOLEAN :
       /\ range' = r
       /\ returnRows' = rr
       /\ result' = sliceTextByRange(text, r, eol, rr)
  /\ op' = "slice"
  /\ pc' = "returned"
  /\ UNCHANGED <<text, eol, newText>>
  /\ UNCHANGED panelVars

CallReplace ==
  /\ pc = "idle"
  /\ \E r \in Ranges, n \in NewTexts :
       /\ range' = r
       /\ newText' = n
       /\ result' = replaceTextByRange(text, r, n, eol)
  /\ op' = "replace"
  /\ pc' = "returned"
  /\ UNCHANGED <<text, eol, returnRows>>
  /\ UNCHANGED panelVars

\* The editor moves the caret, or the caret coordinate becomes unavailable.
MoveCaret ==
  /\ \E c \in (Coordinates \cup {Null}) \ {caret} : caret' = c
  /\ UNCHANGED <<body, scrollListeners, mounted, calls, disposed>>
  /\ UNCHANGED textVars

\* render(<SuggestionPanel x y text/>, container): the panel placed at the caret.
RenderPanel(m, container, pos) == (container :> [x |-> pos.x, top |-> pos.y]) @@ m

\* render(null, container): the panel is unmounted.
Unmount(m, container) == [c \in (DOMAIN m) \ {container} |-> m[c]]

\* attachSuggestionPanel(text): the call numbered Len(calls) + 1.
Attach ==
  /\ Len(calls) < MaxAttach
  /\ LET id == Len(calls) + 1
         pos == caret
     IN IF pos = Null
          THEN /\ calls' = Append(calls, [pos |-> Null, container |-> 0, listener |-> 0])
               /\ UNCHANGED <<body, scrollListeners, mounted>>
          ELSE /\ body' = body \cup {id}
               /\ mounted' = RenderPanel(mounted, id, pos)
               /\ scrollListeners' = scrollListeners \cup {id}
               /\ calls' = Append(calls, [pos |-> pos, container |-> id, listener |-> id])
  /\ UNCHANGED <<caret, disposed>>
  /\ UNCHANGED textVars

\* Mutant of the disposer: container.remove() is missing.
DisposerEffect_KeepsContainer(call) ==
  IF call.pos = Null
    THEN UNCHANGED <<body, scrollListeners, mounted>>
    ELSE /\ scrollListeners' = scrollListeners \ {call.listener}
         /\ mounted' = Unmount(mounted, call.container)
         /\ body' = body

\* The disposer a call returned: () => {} when the call read no caret
\* coordinate, and otherwise off("scroll", scrollListener), render(null,
\* container), container.remove().
DisposerEffect(call) ==
  IF call.pos = Null
    THEN UNCHANGED <<body, scrollListeners, mounted>>
    ELSE /\ scrollListeners' = scrollListeners \ {call.listener}
         /\ mounted' = Unmount(mounted, call.container)
         /\ body' = body \ {call.container}

\* The disposer returned by call i is called (any number of times).
Dispose ==
  /\ \E i \in 1..Len(calls) :
       /\ DisposerEffect(calls[i])
       /\ disposed' = disposed \cup {i}
  /\ UNCHANGED <<caret, calls>>
  /\ UNCHANGED textVars

\* One registered scrollListener runs: with a caret coordinate, every
\* .suggestion-panel element of the document gets its top set from pos.y.
ScrollListenerEffect(m) ==
  LET pos == caret
  IN IF pos = Null THEN m
     ELSE [c \in DOMAIN m |-> IF c \in body THEN [m[c] EXCEPT !.top = pos.y] ELSE m[c]]

\* A scroll event on the content element: the registered listeners run
\* (they are the same function of the same state, so one run decides it).
Scroll ==
  /\ mounted' = IF scrollListeners = {} THEN mounted ELSE ScrollListenerEffect(mounted)
  /\ UNCHANGED <<caret, body, scrollListeners, calls, disposed>>
  /\ UNCHANGED textVars

\* ------------------------------------------------------ specifications
\* The text primitives, each applied once to inputs drawn from the bounded sets.
Init ==
  /\ TextInit
  /\ caret = Null /\ body = {} /\ scrollListeners = {}
  /\ mounted = <<>> /\ calls = <<>> /\ disposed = {}

Next == CallSlice \/ CallReplace

Spec == Init /\ [][Next]_vars

\* The suggestion panel: attach calls, scroll events, caret moves and disposer
\* calls in any interleaving.
PanelSpecInit ==
  /\ PanelInit
  /\ text = <<>> /\ eol = <<LF>> /\ TextIdle

PanelNext == MoveCaret \/ Attach \/ Dispose \/ Scroll

PanelSpec == PanelSpecInit /\ [][PanelNext]_vars

\* ------------------------------------------------ vocabulary of the claims
rowsOf(T, E) == split(T, E)
rowCount(T, E) == Len(split(T, E))
row(T, E, l) == split(T, E)[l + 1]
prefix(s, n) == SubSeq(s, 1, n)
suffix(s, n) == SubSeq(s, n + 1, Len(s))
substring(s, a, b) == SubSeq(s, a + 1, b)

LineInRange(T, E, p) == p.line \in 0..(rowCount(T, E) - 1)
ValidPosition(T, E, p) ==
  /\ LineInRange(T, E, p)
  /\ p.character \in 0..Len(row(T, E, p.line))
StartAfterEnd(R) ==
  \/ R.start.line > R.end.line
  \/ R.start.line = R.end.line /\ R.start.character > R.end.character
ValidRange(T, E, R) ==
  /\ ValidPosition(T, E, R.start)
  /\ ValidPosition(T, E, R.end)
  /\ ~StartAfterEnd(R)
\* Some line index or some character index of R is outside the buffer.
OutOfRangeRequest(T, E, R) == ~ValidPosition(T, E, R.start) \/ ~ValidPosition(T, E, R.end)

Returned(o) == pc = "returned" /\ op = o

\* ------------------------------------------------------------------ C1
\* C1: a slice of a valid range on one line L returns exactly the substring
\* of row L from start.character up to (not including) end.character, as a
\* string, or as a one-element sequence when returnRows is true.
C1_SingleLineSliceIsSubstring ==
  (Returned("slice") /\ ValidRange(text, eol, range) /\ range.start.line = range.end.line)
    => LET sub == substring(row(text, eol, range.start.line),
                            range.start.character, range.end.character)
       IN result = IF returnRows THEN RowsResult(<<sub>>) ELSE StringResult(sub)

\* ------------------------------------------------------------------ C2
\* C2: a replace of a valid range with start.line < end.line returns the join
\* by eol of the rows before start.line, the one merged row
\* prefix(row[start.line]) + newText + suffix(row[end.line]), and the rows after
\* end.line; the rows strictly between do not appear.
C2_MultiLineReplaceMerges ==
  (Returned("replace") /\ ValidRange(text, eol, range) /\ range.start.line < range.end.line)
    => LET rows == rowsOf(text, eol)
           merged == prefix(rows[range.start.line + 1], range.start.character)
                     \o newText
                     \o suffix(rows[range.end.line + 1], range.end.character)
       IN result = StringResult(join(
            SubSeq(rows, 1, range.start.line) \o <<merged>>
            \o SubSeq(rows, range.end.line + 2, Len(rows)), eol))

\* ------------------------------------------------------------------ C3
\* C3: replacing a valid non-degenerate range with the string its slice
\* returned gives the buffer back unchanged.
C3_SliceReplaceConsistency ==
  (Returned("slice") /\ ~returnRows /\ ValidRange(text, eol, range)
     /\ range.start # range.end)
    => /\ result.kind = "string"
       /\ replaceTextByRange(text, range, result.value, eol) = StringResult(text)

\* ------------------------------------------------------------------ C4
\* C4: slice and replace reject with OutOfRange every request in which a line
\* index is outside [0, rowCount - 1] or a character index is outside
\* [0, length of the addressed row]; no result is returned.
C4_OutOfRangeRejected ==
  (pc = "returned" /\ OutOfRangeRequest(text, eol, range))
    => result.kind = "OutOfRange"

\* ------------------------------------------------------------------ C5
\* C5: slice and replace reject with InvalidRange every range whose start is
\* lexicographically greater than its end; no string result is returned.
C5_InvalidRangeRejected ==
  (pc = "returned" /\ StartAfterEnd(range))
    => result.kind = "InvalidRange"

\* ------------------------------------------------------------------ C6
\* C6: for a valid range, with k the occurrences of eol in newText and
\* m = end.line - start.line, the replaced buffer has rowCount(text) + k - m rows.
C6_RowCountInvariant ==
  (Returned("replace") /\ ValidRange(text, eol, range))
    => /\ result.kind = "string"
       /\ rowCount(result.value, eol)
            = rowCount(text, eol) + (rowCount(newText, eol) - 1)
              - (range.end.line - range.start.line)

\* ------------------------------------------------------------------ C7
\* C7: a slice of a valid range with start.line < end.line returns, with
\* returnRows, the sequence [suffix of row[start.line] from start.character,
\* the rows start.line+1 .. end.line-1 unmodified, prefix of row[end.line] of
\* length end.character], of end.line - start.line + 1 elements, and without
\* returnRows that sequence joined by eol.
C7_MultiLineSlice ==
  (Returned("slice") /\ ValidRange(text, eol, range) /\ range.start.line < range.end.line)
    => LET rows == rowsOf(text, eol)
           expected == <<suffix(rows[range.start.line + 1], range.start.character)>>
                       \o SubSeq(rows, range.start.line + 2, range.end.line)
                       \o <<prefix(rows[range.end.line + 1], range.end.character)>>
       IN /\ Len(expected) = range.end.line - range.start.line + 1
          /\ result = IF returnRows THEN RowsResult(expected)
                      ELSE StringResult(join(expected, eol))

\* A multi-line slice, as rows, that starts inside its first row and has a
\* non-empty middle row.
C7_Witness ==
  /\ Returned("slice") /\ ValidRange(text, eol, range)
  /\ range.end.line = range.start.line + 2
  /\ range.start.character > 0
  /\ returnRows
  /\ result.kind = "rows" /\ Len(result.value) = 3
  /\ result.value[2] # <<>>

\* ------------------------------------------------------------------ C8
\* C8: a replace of a valid range on one line L returns the join by eol of the
\* rows before L, the row prefix(row[L], start.character) + newText +
\* suffix(row[L], end.character), and the rows after L.
C8_SingleLineReplace ==
  (Returned("replace") /\ ValidRange(text, eol, range) /\ range.start.line = range.end.line)
    => LET rows == rowsOf(text, eol)
           L == range.start.line
           edited == prefix(rows[L + 1], range.start.character) \o newText
                     \o suffix(rows[L + 1], range.end.character)
       IN result = StringResult(join(
            SubSeq(rows, 1, L) \o <<edited>> \o SubSeq(rows, L + 2, Len(rows)), eol))

\* A single-line replace of a non-empty span, inside a row that has rows
\* before and after it, by a non-empty newText.
C8_Witness ==
  /\ Returned("replace") /\ ValidRange(text, eol, range)
  /\ range.start.line = range.end.line
  /\ range.start.line > 0
  /\ range.start.line < rowCount(text, eol) - 1
  /\ range.start.character < range.end.character
  /\ newText # <<>>
  /\ result.kind = "string"

\* ------------------------------------------------------------------ C9
\* C9: replacing an empty range (start = end) at a valid position with the
\* empty string returns the buffer unchanged.
C9_RoundTripIdentity ==
  (Returned("replace") /\ ValidRange(text, eol, range)
     /\ range.start = range.end /\ newText = <<>>)
    => result = StringResult(text)

\* An empty replacement at an inner position of a buffer of several rows
\* under the two-unit terminator.
C9_Witness ==
  /\ Returned("replace") /\ ValidRange(text, eol, range)
  /\ range.start = range.end /\ newText = <<>>
  /\ eol = <<CR, LF>>
  /\ range.start.line > 0 /\ range.start.character > 0
  /\ result = StringResult(text)

\* ------------------------------------------------------------------ C10
\* C10: in every reachable state the containers in the document body are
\* exactly those of the calls that read a caret coordinate and whose disposer
\* has not been called, and so are the registered scroll listeners: a disposed
\* call's container and listener are gone, the other panels' are untouched, and
\* a call that read no caret coordinate appended nothing, registered nothing
\* and its disposer changes nothing.
PanelCalls == {i \in 1..Len(calls) : calls[i].pos # Null}
C10_PanelLeaksNothing ==
  /\ body = {calls[i].container : i \in PanelCalls \ disposed}
  /\ scrollListeners = {calls[i].listener : i \in PanelCalls \ disposed}
  /\ DOMAIN mounted = body
  /\ \A i \in PanelCalls \cap disposed :
       calls[i].container \notin body /\ calls[i].listener \notin scrollListeners

\* One panel is disposed, another is still attached, and the disposer of a call
\* that read no caret coordinate has been called.
C10_Witness ==
  \E i, j, k \in 1..Len(calls) :
    /\ i \in PanelCalls /\ i \in disposed
    /\ j \in PanelCalls /\ j \notin disposed /\ calls[j].container \in body
    /\ k \notin PanelCalls /\ k \in disposed

====
